---------------------------- MODULE Spec2Model ----------------------------
(***************************************************************************)
(* The ticket pipeline of pipeline/etl.py as a state machine: a raw ticket *)
(* table and five reference tables are given, and clean_tickets,           *)
(* enrich_tickets, compute_sla_metrics and manager_operator_performance    *)
(* are applied in that order, each to the table the stage before it        *)
(* returned.  A stage that raises ends the run in pc = "raised".           *)
(*                                                                         *)
(* A string is a sequence of one-character strings, so that strip, lower,  *)
(* split and the merge suffixes are computed as the code computes them.    *)
(* A cell is a tagged record: Str(s), NaN (pandas' missing marker), NaT,   *)
(* Ts(t) (a timestamp, in seconds), DtStr (a timestamp still in text),     *)
(* Num (a float, as an exact fraction) or Bool.  A table is a set of       *)
(* column names and a sequence of rows, each a function from the column    *)
(* names to cells.                                                         *)
(***************************************************************************)
EXTENDS Integers, Sequences, FiniteSets, TLC

VARIABLES pc, raw, refs, cleaned, enriched, sla, kpi, err

vars == <<pc, raw, refs, cleaned, enriched, sla, kpi, err>>

----------------------------------------------------------------------------
(* Bounds of the model. *)

\* Most rows of a raw ticket table.
MaxRows == 2

----------------------------------------------------------------------------
(* Strings. *)

\* The characters str.strip() removes (of those the model's strings hold).
Whitespace == {" "}

RECURSIVE LStrip(_)
LStrip(s) == IF s # <<>> /\ Head(s) \in Whitespace THEN LStrip(Tail(s)) ELSE s

RECURSIVE RStrip(_)
RStrip(s) ==
    IF s # <<>> /\ s[Len(s)] \in Whitespace
    THEN RStrip(SubSeq(s, 1, Len(s) - 1))
    ELSE s

\* str.strip()
Strip(s) == RStrip(LStrip(s))

LowerChar(c) ==
    CASE c = "A" -> "a" [] c = "B" -> "b" [] c = "C" -> "c" [] c = "D" -> "d"
      [] c = "E" -> "e" [] c = "F" -> "f" [] c = "G" -> "g" [] c = "H" -> "h"
      [] c = "I" -> "i" [] c = "J" -> "j" [] c = "K" -> "k" [] c = "L" -> "l"
      [] c = "M" -> "m" [] c = "N" -> "n" [] c = "O" -> "o" [] c = "P" -> "p"
      [] c = "Q" -> "q" [] c = "R" -> "r" [] c = "S" -> "s" [] c = "T" -> "t"
      [] c = "U" -> "u" [] c = "V" -> "v" [] c = "W" -> "w" [] c = "X" -> "x"
      [] c = "Y" -> "y" [] c = "Z" -> "z" [] OTHER -> c

\* str.lower()
Lower(s) == [i \in 1..Len(s) |-> LowerChar(s[i])]

\* str.replace(" ", "_")
ReplaceSpaces(s) == [i \in 1..Len(s) |-> IF s[i] = " " THEN "_" ELSE s[i]]

\* The renaming every stage applies to column names:
\* lambda s: s.strip().lower().replace(" ", "_")
snake_case(s) == ReplaceSpaces(Lower(Strip(s)))

RECURSIVE SplitFrom(_, _, _)
SplitFrom(s, sep, cur) ==
    IF s = <<>> THEN <<cur>>
    ELSE IF Head(s) = sep THEN <<cur>> \o SplitFrom(Tail(s), sep, <<>>)
    ELSE SplitFrom(Tail(s), sep, Append(cur, Head(s)))

\* str.split(sep): the segments of s between the separators, at least one.
Split(s, sep) == SplitFrom(s, sep, <<>>)

----------------------------------------------------------------------------
(* Cells. *)

Str(s) == [k |-> "str", s |-> s]

\* np.nan, the missing marker of a column of strings or numbers.
NaN == [k |-> "nan"]

\* pd.NaT, the missing marker of a column of timestamps.
NaT == [k |-> "nat"]

\* None, what row.get(col) returns for a column the row does not have.
None == [k |-> "none"]

\* A timestamp, in seconds since some epoch.
Ts(t) == [k |-> "ts", t |-> t]

\* The text of timestamp t written in format fmt.
DtStr(fmt, t) == [k |-> "dtstr", fmt |-> fmt, t |-> t]

\* A float, kept as the exact fraction num / den (den > 0).
Num(num, den) == [k |-> "num", num |-> num, den |-> den]

Bool(b) == [k |-> "bool", b |-> b]

\* pd.isna / pd.notna
isna(c) == c.k \in {"nan", "nat", "none"}

notna(c) == ~isna(c)

\* str(val) / Series.astype(str) on a cell of a column of strings.
astype_str(c) == IF c.k = "str" THEN c.s ELSE <<"n", "a", "n">>

----------------------------------------------------------------------------
(* Tables. *)

Frame(cols, rows) == [absent |-> FALSE, cols |-> cols, rows |-> rows]

\* pd.DataFrame()
EmptyFrame == Frame({}, <<>>)

\* A table argument that is None.
NoTable == [absent |-> TRUE, cols |-> {}, rows |-> <<>>]

\* DataFrame.empty: no rows or no columns.
empty(df) == df.cols = {} \/ df.rows = <<>>

\* "df is None or df.empty"
NoneOrEmpty(df) == df.absent \/ empty(df)

\* df.rename(columns=f), for f one-to-one on df's columns.
rename(df, f(_)) ==
    LET newcols == {f(c) : c \in df.cols}
        old(n) == CHOOSE c \in df.cols : f(c) = n
    IN  Frame(newcols,
              [i \in 1..Len(df.rows) |-> [n \in newcols |-> df.rows[i][old(n)]]])

\* df[col] = f(row), row by row: col is added, or overwritten.
assign(df, col, f(_)) ==
    LET newcols == df.cols \cup {col}
    IN  Frame(newcols,
              [i \in 1..Len(df.rows) |->
                  [n \in newcols |-> IF n = col THEN f(df.rows[i]) ELSE df.rows[i][n]]])

\* row.get(col)
get(row, col) == IF col \in DOMAIN row THEN row[col] ELSE None

Max(S) == CHOOSE x \in S : \A y \in S : y <= x

----------------------------------------------------------------------------
(* Column names the code reads and writes. *)

c_operator == <<"o", "p", "e", "r", "a", "t", "o", "r">>

c_report_id == <<"r", "e", "p", "o", "r", "t", "_", "i", "d">>

c_service_code ==
    <<"s", "e", "r", "v", "i", "c", "e", "_", "c", "o", "d", "e">>

c_ticket_open_time ==
    <<"t", "i", "c", "k", "e", "t", "_", "o", "p", "e", "n", "_", "t", "i",
    "m", "e">>

c_ticket_resp_time ==
    <<"t", "i", "c", "k", "e", "t", "_", "r", "e", "s", "p", "_", "t", "i",
    "m", "e">>

c_issue_res_time ==
    <<"i", "s", "s", "u", "e", "_", "r", "e", "s", "_", "t", "i", "m", "e">>

c_ticket_close_time ==
    <<"t", "i", "c", "k", "e", "t", "_", "c", "l", "o", "s", "e", "_", "t",
    "i", "m", "e">>

c_ticket_status ==
    <<"t", "i", "c", "k", "e", "t", "_", "s", "t", "a", "t", "u", "s">>

c_report_channel ==
    <<"r", "e", "p", "o", "r", "t", "_", "c", "h", "a", "n", "n", "e", "l">>

c_fault_type == <<"f", "a", "u", "l", "t", "_", "t", "y", "p", "e">>

c_state_key == <<"s", "t", "a", "t", "e", "_", "k", "e", "y">>

c_employee_name ==
    <<"e", "m", "p", "l", "o", "y", "e", "e", "_", "n", "a", "m", "e">>

c_employee_name_lc ==
    <<"e", "m", "p", "l", "o", "y", "e", "e", "_", "n", "a", "m", "e", "_",
    "l", "c">>

c_operator_lc == <<"o", "p", "e", "r", "a", "t", "o", "r", "_", "l", "c">>

c_employee_id == <<"e", "m", "p", "l", "o", "y", "e", "e", "_", "i", "d">>

c_manager_id == <<"m", "a", "n", "a", "g", "e", "r", "_", "i", "d">>

c_designation == <<"d", "e", "s", "i", "g", "n", "a", "t", "i", "o", "n">>

c_manager == <<"m", "a", "n", "a", "g", "e", "r">>

c_channel_key == <<"c", "h", "a", "n", "n", "e", "l", "_", "k", "e", "y">>

c_fault == <<"f", "a", "u", "l", "t">>

c_key_0 == <<"k", "e", "y", "_", "0">>

c_response_seconds ==
    <<"r", "e", "s", "p", "o", "n", "s", "e", "_", "s", "e", "c", "o", "n",
    "d", "s">>

c_resolution_seconds ==
    <<"r", "e", "s", "o", "l", "u", "t", "i", "o", "n", "_", "s", "e", "c",
    "o", "n", "d", "s">>

c_resolution_minutes ==
    <<"r", "e", "s", "o", "l", "u", "t", "i", "o", "n", "_", "m", "i", "n",
    "u", "t", "e", "s">>

c_response_sla_pass ==
    <<"r", "e", "s", "p", "o", "n", "s", "e", "_", "s", "l", "a", "_", "p",
    "a", "s", "s">>

c_resolution_sla_pass ==
    <<"r", "e", "s", "o", "l", "u", "t", "i", "o", "n", "_", "s", "l", "a",
    "_", "p", "a", "s", "s">>

c_escalation == <<"e", "s", "c", "a", "l", "a", "t", "i", "o", "n">>

c_resolution_category ==
    <<"r", "e", "s", "o", "l", "u", "t", "i", "o", "n", "_", "c", "a", "t",
    "e", "g", "o", "r", "y">>

----------------------------------------------------------------------------
(* The suffixes of the merges, and the string literals of the code. *)

sfx_none == <<>>

sfx_emp == <<"_", "e", "m", "p">>

sfx_service == <<"_", "s", "e", "r", "v", "i", "c", "e">>

sfx_loc == <<"_", "l", "o", "c">>

sfx_x == <<"_", "x">>

sfx_y == <<"_", "y">>

UNKNOWN == <<"U", "N", "K", "N", "O", "W", "N">>

completed == <<"c", "o", "m", "p", "l", "e", "t", "e", "d">>

closed == <<"c", "l", "o", "s", "e", "d">>

cat_Unknown == <<"U", "n", "k", "n", "o", "w", "n">>

cat_LessThan30 ==
    <<"L", "e", "s", "s", " ", "T", "h", "a", "n", " ", "3", "0", " ", "M",
    "i", "n", "s">>

cat_30to60 ==
    <<"3", "0", "M", "i", "n", "s", " ", "-", " ", "1", " ", "h", "o", "u",
    "r">>

cat_1to3h ==
    <<"1", " ", "h", "o", "u", "r", " ", "-", " ", "3", " ", "h", "o", "u",
    "r", "s">>

cat_Over3h ==
    <<"G", "r", "e", "a", "t", "e", "r", " ", "t", "h", "a", "n", " ", "3",
    " ", "h", "o", "u", "r", "s">>

----------------------------------------------------------------------------
(* Column names as the raw tables spell them. *)

h_ReportID == <<"R", "e", "p", "o", "r", "t", " ", "I", "D">>

h_Operator == <<"O", "p", "e", "r", "a", "t", "o", "r">>

h_TicketOpenTime ==
    <<"T", "i", "c", "k", "e", "t", " ", "O", "p", "e", "n", " ", "T", "i",
    "m", "e">>

h_TicketRespTime ==
    <<"T", "i", "c", "k", "e", "t", " ", "R", "e", "s", "p", " ", "T", "i",
    "m", "e">>

h_IssueResTime ==
    <<"I", "s", "s", "u", "e", " ", "R", "e", "s", " ", "T", "i", "m", "e">>

h_TicketCloseTime ==
    <<"T", "i", "c", "k", "e", "t", " ", "C", "l", "o", "s", "e", " ", "T",
    "i", "m", "e">>

h_TicketStatus ==
    <<"T", "i", "c", "k", "e", "t", " ", "S", "t", "a", "t", "u", "s">>

h_ReportChannel ==
    <<"R", "e", "p", "o", "r", "t", " ", "C", "h", "a", "n", "n", "e", "l">>

h_FaultType == <<"F", "a", "u", "l", "t", " ", "T", "y", "p", "e">>

h_StateKey == <<"S", "t", "a", "t", "e", " ", "K", "e", "y">>

h_EmployeeName ==
    <<"E", "m", "p", "l", "o", "y", "e", "e", "_", "n", "a", "m", "e">>

h_EmployeeID == <<"E", "m", "p", "l", "o", "y", "e", "e", " ", "I", "D">>

h_ManagerID == <<"M", "a", "n", "a", "g", "e", "r", " ", "I", "D">>

h_Designation == <<"D", "e", "s", "i", "g", "n", "a", "t", "i", "o", "n">>

h_Manager == <<"M", "a", "n", "a", "g", "e", "r">>

h_ChannelKey == <<"C", "h", "a", "n", "n", "e", "l", " ", "K", "e", "y">>

h_ChannelName ==
    <<"C", "h", "a", "n", "n", "e", "l", " ", "N", "a", "m", "e">>

h_ServiceCode ==
    <<"S", "e", "r", "v", "i", "c", "e", " ", "C", "o", "d", "e">>

h_ServiceName ==
    <<"S", "e", "r", "v", "i", "c", "e", " ", "N", "a", "m", "e">>

h_Fault == <<"F", "a", "u", "l", "t">>

h_FaultGroup == <<"F", "a", "u", "l", "t", " ", "G", "r", "o", "u", "p">>

h_Region == <<"R", "e", "g", "i", "o", "n">>

----------------------------------------------------------------------------
(* The strings of the input tables. *)

v_Al == <<"A", "l">>

v_AL == <<"A", "L">>

v_al == <<"a", "l">>

v_Bo == <<"B", "o">>

v_space == <<" ">>

v_A_B_WL == <<"A", "-", "B", "-", "W", "L">>

v_A_WL == <<"A", "-", "W", "L">>

v_A_B == <<"A", "-", "B">>

v_WL == <<"W", "L">>

v_padded == <<" ", "A", "-", "W", "L", " ">>

v_A_ == <<"A", "-">>

v_AXA ==
    <<"A", "X", "A", "-", "2", "0", "2", "0", "1", "2", "3", "1", "-", "1",
    "1", "0", "1", "-", "W", "L", "E", "S", "S">>

v_WLESS == <<"W", "L", "E", "S", "S">>

v_B == <<"B">>

v_CH1 == <<"C", "H", "1">>

v_CH2 == <<"C", "H", "2">>

v_Web == <<"W", "e", "b">>

v_App == <<"A", "p", "p">>

v_Wireless == <<"W", "i", "r", "e", "l", "e", "s", "s">>

v_Fibre == <<"F", "i", "b", "r", "e">>

v_F1 == <<"F", "1">>

v_F1_padded == <<" ", "F", "1", " ">>

v_F2 == <<"F", "2">>

v_Net == <<"N", "e", "t">>

v_Power == <<"P", "o", "w", "e", "r">>

v_LA == <<"L", "A">>

v_KN == <<"K", "N">>

v_West == <<"W", "e", "s", "t">>

v_North == <<"N", "o", "r", "t", "h">>

v_Completed == <<"C", "o", "m", "p", "l", "e", "t", "e", "d">>

v_CLOSED == <<"C", "L", "O", "S", "E", "D">>

v_Open == <<"O", "p", "e", "n">>

v_E1 == <<"E", "1">>

v_E2 == <<"E", "2">>

v_M1 == <<"M", "1">>

v_Mo == <<"M", "o">>

v_Ny == <<"N", "y">>

v_Engineer == <<"E", "n", "g", "i", "n", "e", "e", "r">>

v_soon == <<"s", "o", "o", "n">>

----------------------------------------------------------------------------
(* clean_tickets *)

\* The format patterns parse_dt tries, in this order.
Formats ==
    <<"%Y/%m/%d %H:%M:%S", "%m/%d/%Y %H:%M", "%Y-%m-%d %H:%M:%S",
      "%d/%m/%Y %H:%M:%S">>

\* pd.to_datetime(val, format=fmt): the timestamp, or Failed when val is not
\* text in that format.
Failed == [k |-> "failed"]

to_datetime_format(val, fmt) ==
    IF val.k = "dtstr" /\ val.fmt = fmt THEN Ts(val.t) ELSE Failed

\* pd.to_datetime(val, errors="coerce"): text in a format pandas infers gives
\* its timestamp, any other text NaT.
to_datetime_coerce(val) == IF val.k = "dtstr" THEN Ts(val.t) ELSE NaT

RECURSIVE try_formats(_, _)
try_formats(val, i) ==
    IF i > Len(Formats) THEN to_datetime_coerce(val)
    ELSE IF to_datetime_format(val, Formats[i]) # Failed
         THEN to_datetime_format(val, Formats[i])
         ELSE try_formats(val, i + 1)

\* "pd.isna(val) or str(val).strip() == ''"
blank(val) == isna(val) \/ (val.k = "str" /\ Strip(val.s) = <<>>)

parse_dt(val) == IF blank(val) THEN NaT ELSE try_formats(val, 1)

\* The columns clean_tickets parses.
TimeColumns ==
    {c_ticket_open_time, c_ticket_resp_time, c_issue_res_time,
     c_ticket_close_time}

parse_times(df) ==
    Frame(df.cols,
          [i \in 1..Len(df.rows) |->
              [n \in df.cols |->
                  IF n \in TimeColumns THEN parse_dt(df.rows[i][n])
                  ELSE df.rows[i][n]]])

\* Series.replace("", np.nan), cell by cell.
replace_blank(c) == IF c = Str(<<>>) THEN NaN ELSE c

\* Series.fillna(v), cell by cell.
fillna(c, v) == IF isna(c) THEN v ELSE c

\* fill_operator without the replace("", np.nan): only a missing operator
\* is filled.
fill_operator_keeps_blank(df) ==
    IF c_operator \in df.cols
    THEN assign(df, c_operator, LAMBDA r : fillna(r[c_operator], Str(UNKNOWN)))
    ELSE assign(df, c_operator, LAMBDA r : Str(UNKNOWN))

fill_operator(df) ==
    IF c_operator \in df.cols
    THEN assign(df, c_operator,
                LAMBDA r : fillna(replace_blank(r[c_operator]), Str(UNKNOWN)))
    ELSE assign(df, c_operator, LAMBDA r : Str(UNKNOWN))

\* Series.str.split("-", expand=True).iloc[:, -1]: the frame split() expands to
\* has as many columns as the longest list of segments of the whole column; a
\* row with fewer segments is padded with None, and the last column is taken.
split_last_column(df, col) ==
    LET pieces(r) == Split(r[col].s, "-")
        width == Max({Len(pieces(df.rows[i])) : i \in 1..Len(df.rows)})
    IN  [i \in 1..Len(df.rows) |->
            IF Len(pieces(df.rows[i])) = width
            THEN Str(pieces(df.rows[i])[width])
            ELSE None]

extract_service_code(df) ==
    IF c_report_id \in df.cols
    THEN LET d == assign(df, c_report_id,
                         LAMBDA r : Str(Strip(astype_str(r[c_report_id]))))
             last == split_last_column(d, c_report_id)
         IN  Frame(d.cols \cup {c_service_code},
                   [i \in 1..Len(d.rows) |->
                       [n \in d.cols \cup {c_service_code} |->
                           IF n = c_service_code THEN fillna(last[i], Str(<<>>))
                           ELSE d.rows[i][n]]])
    ELSE assign(df, c_service_code, LAMBDA r : Str(<<>>))

clean_tickets(df) ==
    IF NoneOrEmpty(df) THEN EmptyFrame
    ELSE extract_service_code(
             fill_operator(parse_times(rename(df, snake_case))))

----------------------------------------------------------------------------
(* enrich_tickets *)

\* What a stage gives: the table it returns, or the exception it raises.
Ok(df) == [exc |-> "", df |-> df]

Raise(exc) == [exc |-> exc, df |-> EmptyFrame]

\* The rows of right whose key cell equals key, in right's order.  pandas
\* matches a missing key with a missing key.
matching_rows(right, right_on, key) ==
    SelectSeq(right.rows, LAMBDA r : r[right_on] = key)

\* left.merge(right, left_on=..., right_on=..., how="left", suffixes=...):
\* keys[i] is the key of left's i-th row.  same_key: left_on and right_on name
\* the same column, which the result holds once.  array_key: left_on is a
\* Series, not a column name, and the result holds the keys in column key_0.
\* A column name both tables have (the shared key apart) gets the suffixes.
merge_left(left, keys, right, right_on, same_key, array_key, suffixes) ==
    LET rcols == IF same_key THEN right.cols \ {right_on} ELSE right.cols
        overlap == left.cols \cap rcols
        lname(c) == IF c \in overlap THEN c \o suffixes[1] ELSE c
        rname(c) == IF c \in overlap THEN c \o suffixes[2] ELSE c
        lcols == {lname(c) : c \in left.cols}
        kcols == IF array_key THEN {c_key_0} ELSE {}
        outcols == kcols \cup lcols \cup {rname(c) : c \in rcols}
        unmatched == [c \in rcols |-> NaN]
        joined(i, rrow) ==
            [n \in outcols |->
                IF n \in kcols THEN keys[i]
                ELSE IF n \in lcols
                     THEN left.rows[i][CHOOSE c \in left.cols : lname(c) = n]
                     ELSE rrow[CHOOSE c \in rcols : rname(c) = n]]
        rows_of(i) ==
            LET m == matching_rows(right, right_on, keys[i])
            IN  IF m = <<>> THEN <<joined(i, unmatched)>>
                ELSE [j \in 1..Len(m) |-> joined(i, m[j])]
        RECURSIVE rows_from(_)
        rows_from(i) ==
            IF i > Len(left.rows) THEN <<>> ELSE rows_of(i) \o rows_from(i + 1)
    IN  Frame(outcols, rows_from(1))

\* The key of each row of df: its cell in column col.
column(df, col) == [i \in 1..Len(df.rows) |-> df.rows[i][col]]

\* Series.astype(str).str.lower(), cell by cell.
str_lower(c) == Str(Lower(astype_str(c)))

\* Series.str.strip(), cell by cell: a missing cell stays missing.
str_strip(c) == IF c.k = "str" THEN Str(Strip(c.s)) ELSE NaN

join_employees(df, employees_df) ==
    IF ~NoneOrEmpty(employees_df)
    THEN LET emp == rename(employees_df, snake_case)
         IN  IF c_employee_name \notin emp.cols
             THEN Raise("AttributeError")  \* "".astype
             ELSE IF c_operator \notin df.cols
             THEN Raise("KeyError")
             ELSE LET e == assign(emp, c_employee_name_lc,
                                  LAMBDA r : str_lower(r[c_employee_name]))
                      d == assign(df, c_operator_lc,
                                  LAMBDA r : str_lower(r[c_operator]))
                  IN  Ok(merge_left(d, column(d, c_operator_lc), e,
                                    c_employee_name_lc, FALSE, FALSE,
                                    <<sfx_none, sfx_emp>>))
    ELSE Ok(assign(assign(assign(assign(df,
                c_employee_id, LAMBDA r : NaN),
                c_manager_id, LAMBDA r : NaN),
                c_designation, LAMBDA r : NaN),
                c_manager, LAMBDA r : NaN))

join_channel(df, channel_df) ==
    IF ~NoneOrEmpty(channel_df)
    THEN LET ch == rename(channel_df, snake_case)
         IN  IF c_report_channel \notin df.cols \/ c_channel_key \notin ch.cols
             THEN Raise("KeyError")
             ELSE Ok(merge_left(df, column(df, c_report_channel), ch,
                                c_channel_key, FALSE, FALSE, <<sfx_x, sfx_y>>))
    ELSE Ok(df)

join_service_type(df, service_type_df) ==
    IF ~NoneOrEmpty(service_type_df)
    THEN LET st == rename(service_type_df, snake_case)
         IN  IF c_service_code \notin df.cols \/ c_service_code \notin st.cols
             THEN Raise("KeyError")
             ELSE Ok(merge_left(df, column(df, c_service_code), st,
                                c_service_code, TRUE, FALSE,
                                <<sfx_none, sfx_service>>))
    ELSE Ok(df)

join_fault_type(df, fault_type_df) ==
    IF ~NoneOrEmpty(fault_type_df)
    THEN LET ft == rename(fault_type_df, snake_case)
         IN  IF c_fault_type \notin df.cols
             THEN Raise("AttributeError")  \* df.get("fault_type", "").str
             ELSE IF c_fault \notin ft.cols
             THEN Raise("KeyError")
             ELSE Ok(merge_left(df,
                                [i \in 1..Len(df.rows) |->
                                    str_strip(df.rows[i][c_fault_type])],
                                ft, c_fault, FALSE, TRUE, <<sfx_x, sfx_y>>))
    ELSE Ok(df)

join_location(df, location_df) ==
    IF ~NoneOrEmpty(location_df)
    THEN LET loc == rename(location_df, snake_case)
         IN  IF c_state_key \notin df.cols \/ c_state_key \notin loc.cols
             THEN Raise("KeyError")
             ELSE Ok(merge_left(df, column(df, c_state_key), loc, c_state_key,
                                TRUE, FALSE, <<sfx_none, sfx_loc>>))
    ELSE Ok(df)

\* The next step of a stage, unless the one before it raised.
then(r, step(_)) == IF r.exc # "" THEN r ELSE step(r.df)

\* enrich_tickets without the test for an empty ticket table.
enrich_tickets_no_short_circuit(tickets_df, employees_df, channel_df, service_type_df, fault_type_df, location_df) ==
    then(then(then(then(
        join_employees(tickets_df, employees_df),
        LAMBDA d : join_channel(d, channel_df)),
        LAMBDA d : join_service_type(d, service_type_df)),
        LAMBDA d : join_fault_type(d, fault_type_df)),
        LAMBDA d : join_location(d, location_df))

enrich_tickets(tickets_df, employees_df, channel_df, service_type_df, fault_type_df, location_df) ==
    IF NoneOrEmpty(tickets_df) THEN Ok(EmptyFrame)
    ELSE then(then(then(then(
             join_employees(tickets_df, employees_df),
             LAMBDA d : join_channel(d, channel_df)),
             LAMBDA d : join_service_type(d, service_type_df)),
             LAMBDA d : join_fault_type(d, fault_type_df)),
             LAMBDA d : join_location(d, location_df))

----------------------------------------------------------------------------
(* compute_sla_metrics *)

\* The thresholds of the two pass flags and of the escalation, and the
\* boundaries of the resolution categories.
ResponseSlaSeconds == 10

ResolutionSlaMinutes == 180

HalfHourMinutes == 30

HourMinutes == 60

\* The seconds of a minute: resolution_minutes = resolution_seconds / 60.0
SecondsPerMinute == 60

\* Comparisons of a float with an integer.
lt(x, n) == x.num < n * x.den

le(x, n) == x.num <= n * x.den

ge(x, n) == x.num >= n * x.den

gt(x, n) == x.num > n * x.den

\* secs(a, b): (a - b).total_seconds(), NaN when either is missing.
secs(a, b) == IF isna(a) \/ isna(b) THEN NaN ELSE Num(a.t - b.t, 1)

\* Series / 60.0, cell by cell: NaN stays NaN.
div(x, n) == IF isna(x) THEN NaN ELSE Num(x.num, x.den * n)

\* response_sla_pass with "<" for "<=".
response_sla_pass_strict(x) ==
    IF notna(x) THEN Bool(lt(x, ResponseSlaSeconds)) ELSE Bool(FALSE)

response_sla_pass(x) ==
    IF notna(x) THEN Bool(le(x, ResponseSlaSeconds)) ELSE Bool(FALSE)

resolution_sla_pass(x) ==
    IF notna(x) THEN Bool(le(x, ResolutionSlaMinutes)) ELSE Bool(FALSE)

\* str(row.get("ticket_status", "")).lower()
status_of(row) ==
    IF c_ticket_status \in DOMAIN row
    THEN Lower(astype_str(row[c_ticket_status]))
    ELSE <<>>

\* escalation with ">=" for ">".
escalation_from_180(row) ==
    IF notna(get(row, c_resolution_minutes))
       /\ ge(row[c_resolution_minutes], ResolutionSlaMinutes)
    THEN Bool(TRUE)
    ELSE IF status_of(row) \in {completed, closed}
            /\ isna(get(row, c_issue_res_time))
         THEN Bool(TRUE)
         ELSE Bool(FALSE)

escalation(row) ==
    IF notna(get(row, c_resolution_minutes))
       /\ gt(row[c_resolution_minutes], ResolutionSlaMinutes)
    THEN Bool(TRUE)
    ELSE IF status_of(row) \in {completed, closed}
            /\ isna(get(row, c_issue_res_time))
         THEN Bool(TRUE)
         ELSE Bool(FALSE)

\* category whose third bucket ends before 180, not at it.
category_180_open(mins) ==
    IF isna(mins) THEN Str(cat_Unknown)
    ELSE IF lt(mins, HalfHourMinutes) THEN Str(cat_LessThan30)
    ELSE IF ge(mins, HalfHourMinutes) /\ lt(mins, HourMinutes)
         THEN Str(cat_30to60)
    ELSE IF ge(mins, HourMinutes) /\ lt(mins, ResolutionSlaMinutes)
         THEN Str(cat_1to3h)
    ELSE Str(cat_Over3h)

category(mins) ==
    IF isna(mins) THEN Str(cat_Unknown)
    ELSE IF lt(mins, HalfHourMinutes) THEN Str(cat_LessThan30)
    ELSE IF ge(mins, HalfHourMinutes) /\ lt(mins, HourMinutes)
         THEN Str(cat_30to60)
    ELSE IF ge(mins, HourMinutes) /\ le(mins, ResolutionSlaMinutes)
         THEN Str(cat_1to3h)
    ELSE Str(cat_Over3h)

\* A timestamp column holds timestamps and NaT; the difference of anything
\* else (text never parsed) raises.
subtractable(a, b) == isna(a) \/ isna(b) \/ (a.k = "ts" /\ b.k = "ts")

compute_sla_metrics(df) ==
    IF NoneOrEmpty(df) THEN Ok(EmptyFrame)
    ELSE IF \E i \in 1..Len(df.rows) :
               \/ ~subtractable(get(df.rows[i], c_ticket_resp_time),
                                get(df.rows[i], c_ticket_open_time))
               \/ ~subtractable(get(df.rows[i], c_issue_res_time),
                                get(df.rows[i], c_ticket_resp_time))
    THEN Raise("TypeError")
    ELSE LET d1 == assign(df, c_response_seconds,
                     LAMBDA r : secs(get(r, c_ticket_resp_time),
                                     get(r, c_ticket_open_time)))
             d2 == assign(d1, c_resolution_seconds,
                     LAMBDA r : secs(get(r, c_issue_res_time),
                                     get(r, c_ticket_resp_time)))
             d3 == assign(d2, c_resolution_minutes,
                     LAMBDA r : div(r[c_resolution_seconds], SecondsPerMinute))
             d4 == assign(d3, c_response_sla_pass,
                     LAMBDA r : response_sla_pass(r[c_response_seconds]))
             d5 == assign(d4, c_resolution_sla_pass,
                     LAMBDA r : resolution_sla_pass(r[c_resolution_minutes]))
             d6 == assign(d5, c_escalation, escalation)
             d7 == assign(d6, c_resolution_category,
                     LAMBDA r : category(r[c_resolution_minutes]))
         IN  Ok(d7)

----------------------------------------------------------------------------
(* manager_operator_performance *)

\* The decimals the averages and the pass rate are rounded to, as powers of
\* ten.
AvgScale == 100

RateScale == 1000

\* round(n / d, digits) * scale as an integer, half to even (d > 0).
round_scaled(n, d, scale) ==
    LET q == (n * scale) \div d
        r == (n * scale) % d
    IN  IF 2 * r < d THEN q
        ELSE IF 2 * r > d THEN q + 1
        ELSE IF q % 2 = 0 THEN q ELSE q + 1

\* round(x, digits) of a float: NaN rounds to NaN.
round(x, scale) ==
    IF isna(x) THEN NaN ELSE Num(round_scaled(x.num, x.den, scale), scale)

\* "x or 0.0": 0.0 when x is falsy.  A float is falsy when it is zero, and NaN
\* is not zero.
or_zero(x) == IF notna(x) /\ x.num = 0 THEN Num(0, 1) ELSE x

RECURSIVE sum_num(_)
sum_num(cells) ==
    IF cells = <<>> THEN 0 ELSE Head(cells).num + sum_num(Tail(cells))

\* The "mean" aggregation: the mean of the cells that are not missing, NaN when
\* there is none.  The cells of one column have one denominator.
mean(cells) ==
    LET present == SelectSeq(cells, notna)
    IN  IF present = <<>> THEN NaN
        ELSE Num(sum_num(present), present[1].den * Len(present))

\* The "count" aggregation: the cells that are not missing.
count(cells) == Len(SelectSeq(cells, notna))

\* lambda x: float(x.sum()) / len(x) if len(x) > 0 else 0.0
pass_rate(cells) ==
    IF Len(cells) > 0
    THEN Num(Len(SelectSeq(cells, LAMBDA c : c.b)), Len(cells))
    ELSE Num(0, 1)

\* d.groupby(by): the keys, which leave out the missing ones, and the rows of
\* each.
group_keys(df, by) ==
    {df.rows[i][by] : i \in {j \in 1..Len(df.rows) : notna(df.rows[j][by])}}

group_rows(df, by, key) == SelectSeq(df.rows, LAMBDA r : r[by] = key)

cells_of(rows, col) == [i \in 1..Len(rows) |-> rows[i][col]]

operator_entry(rows) ==
    [total_tickets |-> count(cells_of(rows, c_report_id)),
     avg_response_seconds |->
         round(or_zero(mean(cells_of(rows, c_response_seconds))), AvgScale),
     avg_resolution_minutes |->
         round(or_zero(mean(cells_of(rows, c_resolution_minutes))), AvgScale),
     sla_pass_rate |->
         round(or_zero(pass_rate(cells_of(rows, c_response_sla_pass))),
               RateScale)]

manager_entry(rows) ==
    [total_tickets |-> count(cells_of(rows, c_report_id)),
     avg_response_seconds |->
         round(or_zero(mean(cells_of(rows, c_response_seconds))), AvgScale),
     avg_resolution_minutes |->
         round(or_zero(mean(cells_of(rows, c_resolution_minutes))), AvgScale)]

\* The columns the aggregations name: one the table lacks raises KeyError.
OperatorColumns ==
    {c_operator, c_report_id, c_response_seconds, c_resolution_minutes,
     c_response_sla_pass}

ManagerColumns ==
    {c_manager, c_report_id, c_response_seconds, c_resolution_minutes}

\* The result of manager_operator_performance on an empty or absent table.
NoPerformance == [operators |-> <<>>, managers |-> <<>>]

OkResult(res) == [exc |-> "", res |-> res]

RaiseResult(exc) == [exc |-> exc, res |-> NoPerformance]

manager_operator_performance(df) ==
    IF NoneOrEmpty(df) THEN OkResult(NoPerformance)
    ELSE IF ~(OperatorColumns \subseteq df.cols) THEN RaiseResult("KeyError")
    ELSE IF c_manager \in df.cols /\ ~(ManagerColumns \subseteq df.cols)
    THEN RaiseResult("KeyError")
    ELSE OkResult(
        [operators |->
            [key \in {k.s : k \in group_keys(df, c_operator)} |->
                operator_entry(group_rows(df, c_operator, Str(key)))],
         managers |->
            IF c_manager \in df.cols
            THEN [key \in {k.s : k \in group_keys(df, c_manager)} |->
                     manager_entry(group_rows(df, c_manager, Str(key)))]
            ELSE <<>>])

----------------------------------------------------------------------------
(* The pipeline. *)

\* The table of a stage the run has not reached.
NotYet == [pending |-> TRUE]

\* A run that starts by giving table to the stage entry: "raw" is
\* clean_tickets, "cleaned" enrich_tickets, "enriched" compute_sla_metrics
\* and "sla" manager_operator_performance.  tables are the reference tables.
Start(entry, table, tables) ==
    /\ pc = entry
    /\ refs = tables
    /\ raw = IF entry = "raw" THEN table ELSE NotYet
    /\ cleaned = IF entry = "cleaned" THEN table ELSE NotYet
    /\ enriched = IF entry = "enriched" THEN table ELSE NotYet
    /\ sla = IF entry = "sla" THEN table ELSE NotYet
    /\ kpi = NotYet
    /\ err = [stage |-> "", exc |-> ""]

CleanTickets ==
    /\ pc = "raw"
    /\ cleaned' = clean_tickets(raw)
    /\ pc' = "cleaned"
    /\ UNCHANGED <<raw, refs, enriched, sla, kpi, err>>

EnrichTickets ==
    /\ pc = "cleaned"
    /\ LET r == enrich_tickets(cleaned, refs.employees, refs.channel,
                               refs.service_type, refs.fault_type,
                               refs.location)
       IN  IF r.exc = ""
           THEN /\ enriched' = r.df
                /\ pc' = "enriched"
                /\ err' = err
           ELSE /\ enriched' = enriched
                /\ pc' = "raised"
                /\ err' = [stage |-> "enrich_tickets", exc |-> r.exc]
    /\ UNCHANGED <<raw, refs, cleaned, sla, kpi>>

ComputeSlaMetrics ==
    /\ pc = "enriched"
    /\ LET r == compute_sla_metrics(enriched)
       IN  IF r.exc = ""
           THEN /\ sla' = r.df
                /\ pc' = "sla"
                /\ err' = err
           ELSE /\ sla' = sla
                /\ pc' = "raised"
                /\ err' = [stage |-> "compute_sla_metrics", exc |-> r.exc]
    /\ UNCHANGED <<raw, refs, cleaned, enriched, kpi>>

ManagerOperatorPerformance ==
    /\ pc = "sla"
    /\ LET r == manager_operator_performance(sla)
       IN  IF r.exc = ""
           THEN /\ kpi' = r.res
                /\ pc' = "done"
                /\ err' = err
           ELSE /\ kpi' = kpi
                /\ pc' = "raised"
                /\ err' = [stage |-> "manager_operator_performance",
                           exc |-> r.exc]
    /\ UNCHANGED <<raw, refs, cleaned, enriched, sla>>

Next ==
    \/ CleanTickets
    \/ EnrichTickets
    \/ ComputeSlaMetrics
    \/ ManagerOperatorPerformance

----------------------------------------------------------------------------
(* The input tables. *)

\* The columns of the ticket table, each with its spelling in the raw table.
TicketHeader ==
    (c_report_id :> h_ReportID) @@ (c_operator :> h_Operator)
    @@ (c_ticket_open_time :> h_TicketOpenTime)
    @@ (c_ticket_resp_time :> h_TicketRespTime)
    @@ (c_issue_res_time :> h_IssueResTime)
    @@ (c_ticket_close_time :> h_TicketCloseTime)
    @@ (c_ticket_status :> h_TicketStatus)
    @@ (c_report_channel :> h_ReportChannel)
    @@ (c_fault_type :> h_FaultType) @@ (c_state_key :> h_StateKey)

TicketColumns == DOMAIN TicketHeader

\* The raw ticket table of the columns cols of the rows given.
raw_tickets(cols, rows) ==
    Frame({TicketHeader[c] : c \in cols},
          [i \in 1..Len(rows) |->
              [h \in {TicketHeader[c] : c \in cols} |->
                  rows[i][CHOOSE c \in cols : TicketHeader[c] = h]]])

\* All sequences over S of at most n elements, and those of at least one.
SeqsUpTo(S, n) == UNION {[1..k -> S] : k \in 0..n}

SomeUpTo(S, n) == UNION {[1..k -> S] : k \in 1..n}

\* A ticket answered 5 seconds after it was opened and resolved an hour later,
\* every key of which has one row in StandardTables.
Ticket ==
    (c_report_id :> Str(v_A_WL)) @@ (c_operator :> Str(v_Al))
    @@ (c_ticket_open_time :> DtStr(Formats[1], 0))
    @@ (c_ticket_resp_time :> DtStr(Formats[1], 5))
    @@ (c_issue_res_time :> DtStr(Formats[3], 3605))
    @@ (c_ticket_close_time :> NaN)
    @@ (c_ticket_status :> Str(v_Completed))
    @@ (c_report_channel :> Str(v_CH1))
    @@ (c_fault_type :> Str(v_F1_padded)) @@ (c_state_key :> Str(v_LA))

\* A ticket no key of which has a row in any reference table.
Unmatched ==
    [Ticket EXCEPT ![c_report_id] = Str(v_A_B), ![c_operator] = Str(<<>>),
                   ![c_report_channel] = NaN, ![c_fault_type] = Str(v_B),
                   ![c_state_key] = NaN]

employee(name, id, manager) ==
    (h_EmployeeName :> Str(name)) @@ (h_EmployeeID :> Str(id))
    @@ (h_ManagerID :> Str(v_M1)) @@ (h_Designation :> Str(v_Engineer))
    @@ (h_Manager :> Str(manager))

channel(key, name) == (h_ChannelKey :> Str(key)) @@ (h_ChannelName :> Str(name))

service_type(code, name) ==
    (h_ServiceCode :> Str(code)) @@ (h_ServiceName :> Str(name))

fault_type(fault, group) ==
    (h_Fault :> Str(fault)) @@ (h_FaultGroup :> Str(group))

location(key, region) == (h_StateKey :> Str(key)) @@ (h_Region :> Str(region))

\* The table of the rows given, which have the same columns.
table(rows) == Frame(DOMAIN rows[1], rows)

\* The table without one of its columns.
without(df, col) ==
    Frame(df.cols \ {col},
          [i \in 1..Len(df.rows) |-> [n \in df.cols \ {col} |-> df.rows[i][n]]])

\* The names of the reference tables, each with the raw spelling of its key.
KeyHeader ==
    [employees |-> h_EmployeeName, channel |-> h_ChannelKey,
     service_type |-> h_ServiceCode, fault_type |-> h_Fault,
     location |-> h_StateKey]

TableNames == DOMAIN KeyHeader

\* No reference table is given.
NoTables == [t \in TableNames |-> NoTable]

\* Reference tables in which every key is there once.
StandardTables ==
    [employees |->
        table(<<employee(v_AL, v_E1, v_Mo), employee(v_Bo, v_E2, v_Ny)>>),
     channel |-> table(<<channel(v_CH1, v_Web), channel(v_CH2, v_App)>>),
     service_type |-> table(<<service_type(v_WL, v_Wireless)>>),
     fault_type |->
        table(<<fault_type(v_F1, v_Net), fault_type(v_F2, v_Power)>>),
     location |-> table(<<location(v_LA, v_West), location(v_KN, v_North)>>)]

\* Reference tables in which the key of Ticket is there twice.
DuplicateTables ==
    [employees |->
        table(<<employee(v_AL, v_E1, v_Mo), employee(v_al, v_E2, v_Ny)>>),
     channel |-> table(<<channel(v_CH1, v_Web), channel(v_CH1, v_App)>>),
     service_type |->
        table(<<service_type(v_WL, v_Wireless), service_type(v_WL, v_Fibre)>>),
     fault_type |->
        table(<<fault_type(v_F1, v_Net), fault_type(v_F1, v_Power)>>),
     location |-> table(<<location(v_LA, v_West), location(v_LA, v_North)>>)]

\* Reference tables that lack their key column.
KeylessTables ==
    [t \in TableNames |-> without(StandardTables[t], KeyHeader[t])]

\* Reference tables with a column named as a column of the ticket table is.
CollidingTables ==
    [t \in TableNames |->
        assign(StandardTables[t], h_Operator, LAMBDA r : Str(v_Bo))]

\* Every choice, for each reference table, among none and those of kinds.
Choices(kinds) ==
    {[t \in TableNames |-> IF pick[t] = 0 THEN NoTable ELSE kinds[pick[t]][t]] :
        pick \in [TableNames -> 0..Len(kinds)]}

----------------------------------------------------------------------------
(* Runs on ticket tables of varied report ids, operators and timestamps. *)

ReportIds ==
    {Str(v_A_B_WL), Str(v_A_WL), Str(v_WL), Str(v_padded), Str(v_A_),
     Str(v_AXA)}

Operators == {Str(v_Al), Str(<<>>), NaN, Str(v_space)}

OpenTimes ==
    {DtStr(Formats[2], 60), DtStr(Formats[4], 1), DtStr("ISO 8601", 2),
     Str(v_soon), Str(v_space), NaN}

CleanTicketRows ==
    {[Ticket EXCEPT ![c_report_id] = rid, ![c_operator] = op] :
        rid \in ReportIds, op \in Operators}
    \cup {[Ticket EXCEPT ![c_ticket_open_time] = t] : t \in OpenTimes}

CleanColumnSets ==
    {{c_report_id, c_operator, c_ticket_open_time},
     {c_report_id, c_ticket_open_time},
     {c_operator, c_ticket_open_time}}

CleanInputs ==
    {raw_tickets(cols, rows) :
        cols \in CleanColumnSets, rows \in SomeUpTo(CleanTicketRows, MaxRows)}

InitClean == \E t \in CleanInputs : Start("raw", t, NoTables)

SpecClean == InitClean /\ [][Next]_vars

----------------------------------------------------------------------------
(* Runs on ticket tables and reference tables of varied keys and columns. *)

EnrichColumns ==
    {c_report_id, c_operator, c_report_channel, c_fault_type, c_state_key}

EnrichTicketRows == {Ticket, Unmatched}

\* Every key has its column, in the ticket table and in the reference tables;
\* a key may have two rows.
FanOutInputs ==
    {<<raw_tickets(EnrichColumns, rows), tables>> :
        rows \in SomeUpTo(EnrichTicketRows, MaxRows),
        tables \in Choices(<<StandardTables, DuplicateTables>>)}

\* A table lacks a column a stage uses: the ticket table, or reference tables.
DegenerateInputs ==
    {<<raw_tickets(EnrichColumns \ {col}, rows), tables>> :
        col \in EnrichColumns,
        rows \in SomeUpTo(EnrichTicketRows, MaxRows),
        tables \in Choices(<<StandardTables>>)}
    \cup
    {<<raw_tickets(EnrichColumns, rows), tables>> :
        rows \in SomeUpTo(EnrichTicketRows, MaxRows),
        tables \in Choices(<<StandardTables, KeylessTables>>)}

\* A reference table has a column named as a column of the ticket table is.
CollidingInputs ==
    {<<raw_tickets(EnrichColumns, rows), tables>> :
        rows \in SomeUpTo(EnrichTicketRows, MaxRows),
        tables \in Choices(<<StandardTables, CollidingTables>>)}

InitEnrich ==
    \E in \in FanOutInputs \cup DegenerateInputs \cup CollidingInputs :
        Start("raw", in[1], in[2])

SpecEnrich == InitEnrich /\ [][Next]_vars

----------------------------------------------------------------------------
(* Runs on ticket tables of varied timestamps and statuses. *)

\* Most rows of a ticket table of these runs.
MaxSlaRows == 1

\* The text of timestamp t, in the first format.
stamp(t) == DtStr(Formats[1], t)

\* A ticket is opened at second 100 and answered 10 or 11 seconds later, or
\* not at all.
Opened == stamp(100)

Answered == {stamp(110), stamp(111)}

\* The seconds from the answer to the resolution: around the boundaries of
\* the categories, at 30, 60 and 180 minutes.
ResDelays == {1799, 1800, 3599, 3600, 10800, 10801}

Statuses == {Str(v_Completed), Str(v_CLOSED), Str(v_Open), NaN}

SlaTicketRows ==
    {[Ticket EXCEPT ![c_ticket_open_time] = open,
                    ![c_ticket_resp_time] = resp,
                    ![c_issue_res_time] = res,
                    ![c_ticket_status] = status] :
        open \in {Opened, NaN},
        resp \in Answered \cup {NaN},
        res \in {stamp(110 + d) : d \in ResDelays} \cup {NaN},
        status \in Statuses}

SlaColumns ==
    {c_report_id, c_ticket_open_time, c_ticket_resp_time, c_issue_res_time,
     c_ticket_status}

SlaColumnSets ==
    {SlaColumns} \cup
    {SlaColumns \ {col} : col \in SlaColumns \ {c_report_id}}

SlaInputs ==
    {raw_tickets(cols, rows) :
        cols \in SlaColumnSets, rows \in SomeUpTo(SlaTicketRows, MaxSlaRows)}

InitSla == \E t \in SlaInputs : Start("raw", t, NoTables)

SpecSla == InitSla /\ [][Next]_vars

----------------------------------------------------------------------------
(* Runs on ticket tables of several tickets of an operator and a manager. *)

KpiTicketRows ==
    {[Ticket EXCEPT ![c_operator] = op,
                    ![c_ticket_resp_time] = resp,
                    ![c_issue_res_time] = res] :
        op \in {Str(v_Al), Str(v_Bo)},
        resp \in {stamp(5), stamp(15), NaN},
        res \in {stamp(105), NaN}}

KpiColumns ==
    {c_report_id, c_operator, c_ticket_open_time, c_ticket_resp_time,
     c_issue_res_time}

KpiInputs ==
    {<<raw_tickets(KpiColumns, rows), tables>> :
        rows \in SomeUpTo(KpiTicketRows, MaxRows),
        tables \in {NoTables,
                    [NoTables EXCEPT !.employees = StandardTables.employees]}}

InitKpi == \E in \in KpiInputs : Start("raw", in[1], in[2])

SpecKpi == InitKpi /\ [][Next]_vars

----------------------------------------------------------------------------
(* Runs on an empty or absent table, given to any of the four stages. *)

\* A row of a table without columns.
NoCells == <<>>

EmptyInputs(entry) ==
    {NoTable, EmptyFrame, Frame({}, <<NoCells>>),
     IF entry = "raw" THEN raw_tickets(TicketColumns, <<>>)
     ELSE Frame(TicketColumns, <<>>)}

Entries == {"raw", "cleaned", "enriched", "sla"}

InitEmpty ==
    \E entry \in Entries :
        \E t \in EmptyInputs(entry) :
            \E tables \in Choices(<<StandardTables, KeylessTables,
                                    CollidingTables>>) :
                Start(entry, t, tables)

SpecEmpty == InitEmpty /\ [][Next]_vars

----------------------------------------------------------------------------
(* Every run above. *)

Init == InitClean \/ InitEnrich \/ InitSla \/ InitKpi \/ InitEmpty

Spec == Init /\ [][Next]_vars

----------------------------------------------------------------------------
(* What the claims read. *)

\* The stage has returned (or its table was the one the run started from).
CleanReturned == raw # NotYet /\ cleaned # NotYet

EnrichReturned == cleaned # NotYet /\ enriched # NotYet

SlaReturned == enriched # NotYet /\ sla # NotYet

KpiReturned == sla # NotYet /\ kpi # NotYet

\* The stage was called with a table that is not empty, and the call is over.
CleanCalled == raw # NotYet /\ pc # "raw" /\ ~NoneOrEmpty(raw)

EnrichCalled ==
    cleaned # NotYet /\ pc \notin {"raw", "cleaned"} /\ ~NoneOrEmpty(cleaned)

SlaCalled ==
    enriched # NotYet /\ pc \notin {"raw", "cleaned", "enriched"}
    /\ ~NoneOrEmpty(enriched)

KpiCalled ==
    sla # NotYet /\ pc \notin {"raw", "cleaned", "enriched", "sla"}
    /\ ~NoneOrEmpty(sla)

\* The raw table has the column the code names col, and its cell in row i.
HasRaw(col) == \E h \in raw.cols : snake_case(h) = col

RawCell(i, col) == raw.rows[i][CHOOSE h \in raw.cols : snake_case(h) = col]

Rows(df) == 1..Len(df.rows)

----------------------------------------------------------------------------
(* C1 *)

\* What follows the last "-" of s.
AfterLastHyphen(s) ==
    SubSeq(s, Max({k \in 1..Len(s) : s[k] = "-"}) + 1, Len(s))

HasHyphen(s) == \E k \in 1..Len(s) : s[k] = "-"

\* The service code the claim gives row i.
ClaimedServiceCode(i) ==
    IF ~HasRaw(c_report_id) THEN <<>>
    ELSE LET id == Strip(RawCell(i, c_report_id).s)
         IN  IF HasHyphen(id) THEN AfterLastHyphen(id) ELSE <<>>

\* C1: clean_tickets sets the service_code of every row to the last segment
\* of its trimmed report_id split on "-", and to the empty string when the
\* report_id has no "-" or the column is absent, whatever the other rows hold.
C1_ServiceCodePerRow ==
    CleanCalled =>
        /\ Len(cleaned.rows) = Len(raw.rows)
        /\ \A i \in Rows(cleaned) :
               cleaned.rows[i][c_service_code] = Str(ClaimedServiceCode(i))

----------------------------------------------------------------------------
(* C2 *)

\* C2: in the table clean_tickets returns for a non-empty table, operator is
\* never empty: UNKNOWN where the raw operator is the empty string or missing
\* or the column is absent, the raw operator unchanged otherwise.
C2_OperatorNeverEmpty ==
    CleanCalled =>
        /\ Len(cleaned.rows) = Len(raw.rows)
        /\ c_operator \in cleaned.cols
        /\ \A i \in Rows(cleaned) :
               LET op == cleaned.rows[i][c_operator]
               IN  /\ op.k = "str"
                   /\ op.s # <<>>
                   /\ IF ~HasRaw(c_operator) THEN op = Str(UNKNOWN)
                      ELSE IF RawCell(i, c_operator) \in {Str(<<>>), NaN}
                           THEN op = Str(UNKNOWN)
                           ELSE op = RawCell(i, c_operator)

\* A table of a ticket without operator and one of operator "Al" has been
\* cleaned: the first has UNKNOWN, the second "Al".
C2_Witness ==
    /\ CleanCalled
    /\ HasRaw(c_operator)
    /\ \E i, j \in Rows(cleaned) :
           /\ RawCell(i, c_operator) = Str(<<>>)
           /\ cleaned.rows[i][c_operator] = Str(UNKNOWN)
           /\ RawCell(j, c_operator) = Str(v_Al)
           /\ cleaned.rows[j][c_operator] = Str(v_Al)

----------------------------------------------------------------------------
(* C3 *)

Supplied(t) == ~NoneOrEmpty(refs[t])

\* Whether reference row r of table t has the key of ticket row.
KeyMatches(t, row, r) ==
    CASE t = "employees" ->
             Lower(astype_str(r[h_EmployeeName]))
                 = Lower(astype_str(row[c_operator]))
      [] t = "channel" -> r[h_ChannelKey] = row[c_report_channel]
      [] t = "service_type" -> r[h_ServiceCode] = row[c_service_code]
      [] t = "fault_type" ->
             r[h_Fault] = (IF row[c_fault_type].k = "str"
                           THEN Str(Strip(row[c_fault_type].s)) ELSE NaN)
      [] t = "location" -> r[h_StateKey] = row[c_state_key]

\* m: the rows of reference table t whose key matches.
MatchCount(t, row) ==
    Cardinality({j \in Rows(refs[t]) : KeyMatches(t, row, refs[t].rows[j])})

AtLeastOne(n) == IF n = 0 THEN 1 ELSE n

RECURSIVE Product(_, _)
Product(f, S) ==
    IF S = {} THEN 1
    ELSE LET t == CHOOSE t \in S : TRUE IN f[t] * Product(f, S \ {t})

\* The copies the left joins make of ticket row: max(1, m) for each table
\* supplied, one join after the other.
CopiesDue(row) ==
    Product([t \in TableNames |->
                IF Supplied(t) THEN AtLeastOne(MatchCount(t, row)) ELSE 1],
            TableNames)

\* The rows of the output that hold the fields of ticket row unchanged.
CopiesOf(row) ==
    {j \in Rows(enriched) :
        \A c \in cleaned.cols :
            c \in enriched.cols /\ enriched.rows[j][c] = row[c]}

\* The columns of the output that reference table t alone supplies.
SuppliedColumns(t) ==
    {snake_case(h) : h \in refs[t].cols} \ cleaned.cols

\* C3: enrich_tickets is a left join on each reference table.  No ticket row
\* is dropped: a ticket row is in the output max(1, m) times for each table
\* supplied, its own fields unchanged, and where m = 0 every column that
\* table supplies holds a missing marker.
C3_LeftJoin ==
    EnrichCalled =>
        /\ EnrichReturned
        /\ \A i \in Rows(cleaned) :
               LET row == cleaned.rows[i]
                   same == {k \in Rows(cleaned) : cleaned.rows[k] = row}
               IN  /\ Cardinality(CopiesOf(row))
                          = Cardinality(same) * CopiesDue(row)
                   /\ \A t \in TableNames :
                          Supplied(t) /\ MatchCount(t, row) = 0 =>
                              \A j \in CopiesOf(row) :
                                  \A c \in SuppliedColumns(t) :
                                      isna(enriched.rows[j][c])

----------------------------------------------------------------------------
(* C8 *)

\* The columns of the ticket table the stages use.
UsedColumns ==
    {c_report_channel, c_fault_type, c_state_key, c_report_id,
     c_ticket_status, c_ticket_open_time, c_ticket_resp_time,
     c_issue_res_time}

\* The run is on a ticket table, not empty, that lacks a column a stage uses,
\* or on a reference table, not empty, that lacks its key column.
DegenerateInput ==
    /\ raw # NotYet
    /\ ~NoneOrEmpty(raw)
    /\ \/ \E c \in UsedColumns : ~HasRaw(c)
       \/ \E t \in TableNames :
              Supplied(t) /\ KeyHeader[t] \notin refs[t].cols

\* C8: on such an input no stage raises: each returns a degraded result.
C8_NoStageRaises == DegenerateInput => pc # "raised"

----------------------------------------------------------------------------
(* C10 *)

\* The columns of reference table t, its key apart, that are named as a
\* column of the ticket table is.
Collisions(t) ==
    {snake_case(h) : h \in refs[t].cols \ {KeyHeader[t]}} \cap cleaned.cols

IsPrefix(p, s) == Len(p) <= Len(s) /\ SubSeq(s, 1, Len(p)) = p

\* C10: where a column of a reference table is named as a column of the
\* ticket table is, the output keeps the ticket's column under its name with
\* the ticket's values, and holds the incoming column under a suffixed name.
C10_TicketColumnKept ==
    EnrichCalled /\ EnrichReturned =>
        \A t \in TableNames :
            Supplied(t) =>
                \A c \in Collisions(t) :
                    /\ c \in enriched.cols
                    /\ \A j \in Rows(enriched) :
                           \E i \in Rows(cleaned) :
                               enriched.rows[j][c] = cleaned.rows[i][c]
                    /\ \E n \in enriched.cols : n # c /\ IsPrefix(c, n)

----------------------------------------------------------------------------
(* C4, C5, C6 *)

\* The text of the status of a row, lower-cased.
StatusText(row) ==
    IF c_ticket_status \notin DOMAIN row THEN <<>>
    ELSE IF row[c_ticket_status].k = "str" THEN Lower(row[c_ticket_status].s)
    ELSE <<"n", "a", "n">>

Present(x) == x.k = "num"

Missing(row, col) == col \notin DOMAIN row \/ row[col].k \in {"nan", "nat"}

\* C4: escalation is true if and only if resolution_minutes is present and
\* greater than 180, or the status is "completed" or "closed" in any case and
\* issue_res_time is missing.  A row of another status without issue_res_time
\* does not escalate, nor does one resolved in exactly 180 minutes.
C4_Escalation ==
    SlaCalled /\ SlaReturned =>
        /\ Len(sla.rows) = Len(enriched.rows)
        /\ \A i \in Rows(sla) :
               LET row == sla.rows[i]
                   mins == row[c_resolution_minutes]
                   done == StatusText(row) \in {completed, closed}
                   late == Present(mins) /\ mins.num > 180 * mins.den
               IN  /\ row[c_escalation] \in {Bool(TRUE), Bool(FALSE)}
                   /\ row[c_escalation].b
                          <=> (late \/ (done /\ Missing(row, c_issue_res_time)))
                   /\ (~done /\ Missing(row, c_issue_res_time))
                          => ~row[c_escalation].b
                   /\ (Present(mins) /\ mins.num = 180 * mins.den
                       /\ ~Missing(row, c_issue_res_time))
                          => ~row[c_escalation].b

\* A ticket closed (in capitals) without issue_res_time escalates.
C4_Witness ==
    /\ SlaCalled
    /\ SlaReturned
    /\ \E i \in Rows(sla) :
           /\ get(sla.rows[i], c_ticket_status) = Str(v_CLOSED)
           /\ Missing(sla.rows[i], c_issue_res_time)
           /\ sla.rows[i][c_escalation] = Bool(TRUE)

\* The category the claim gives a resolution time.
ClaimedCategory(mins) ==
    IF ~Present(mins) THEN cat_Unknown
    ELSE IF mins.num < 30 * mins.den THEN cat_LessThan30
    ELSE IF mins.num < 60 * mins.den THEN cat_30to60
    ELSE IF mins.num <= 180 * mins.den THEN cat_1to3h
    ELSE cat_Over3h

\* C5: resolution_category is one of five labels, which resolution_minutes
\* alone decides (180 is in "1 hour - 3 hours"), and it is "Greater than 3
\* hours" exactly when resolution_sla_pass is false and resolution_minutes is
\* present.
C5_ResolutionCategory ==
    SlaCalled /\ SlaReturned =>
        \A i \in Rows(sla) :
            LET row == sla.rows[i]
                mins == row[c_resolution_minutes]
            IN  /\ row[c_resolution_category] = Str(ClaimedCategory(mins))
                /\ row[c_resolution_category] = Str(cat_Over3h)
                       <=> (row[c_resolution_sla_pass] = Bool(FALSE)
                            /\ Present(mins))

\* A ticket resolved in exactly 180 minutes is in "1 hour - 3 hours".
C5_Witness ==
    /\ SlaCalled
    /\ SlaReturned
    /\ \E i \in Rows(sla) :
           /\ sla.rows[i][c_resolution_minutes] = Num(10800, 60)
           /\ sla.rows[i][c_resolution_category] = Str(cat_1to3h)

\* C6: response_seconds is ticket_resp_time - ticket_open_time in seconds
\* when both are present and missing otherwise, and response_sla_pass is a
\* boolean, true if and only if response_seconds is present and at most 10.
C6_ResponseSla ==
    SlaCalled /\ SlaReturned =>
        /\ Len(sla.rows) = Len(enriched.rows)
        /\ \A i \in Rows(sla) :
               LET in == enriched.rows[i]
                   row == sla.rows[i]
                   secs_ == row[c_response_seconds]
               IN  /\ secs_ =
                          IF Missing(in, c_ticket_resp_time)
                             \/ Missing(in, c_ticket_open_time)
                          THEN NaN
                          ELSE Num(in[c_ticket_resp_time].t
                                       - in[c_ticket_open_time].t, 1)
                   /\ row[c_response_sla_pass] \in {Bool(TRUE), Bool(FALSE)}
                   /\ row[c_response_sla_pass].b
                          <=> (Present(secs_) /\ secs_.num <= 10 * secs_.den)

\* A ticket answered exactly 10 seconds after it was opened passes.
C6_Witness ==
    /\ SlaCalled
    /\ SlaReturned
    /\ \E i \in Rows(sla) :
           /\ sla.rows[i][c_response_seconds] = Num(10, 1)
           /\ sla.rows[i][c_response_sla_pass] = Bool(TRUE)

----------------------------------------------------------------------------
(* C7 *)

\* As numbers, x = y.
SameNumber(x, y) == Present(x) /\ Present(y) /\ x.num * y.den = y.num * x.den

\* The mean of the cells of column col of the rows of sla whose column by is
\* key, those missing left out, rounded to two decimals; 0.0 when all are
\* missing.
ClaimedAverage(by, key, col) ==
    LET present == SelectSeq(sla.rows,
                             LAMBDA r : r[by] = Str(key) /\ Present(r[col]))
    IN  IF present = <<>> THEN Num(0, 1)
        ELSE Num(round_scaled(sum_num(cells_of(present, col)),
                              present[1][col].den * Len(present), 100), 100)

\* C7: in the result of manager_operator_performance, avg_response_seconds
\* and avg_resolution_minutes of every operator and of every manager are
\* numbers, never a missing marker: the mean of the values of the group that
\* are not missing, 0.0 when all are missing.
C7_AveragesAreNumbers ==
    KpiCalled /\ KpiReturned =>
        /\ \A op \in DOMAIN kpi.operators :
               /\ SameNumber(kpi.operators[op].avg_response_seconds,
                      ClaimedAverage(c_operator, op, c_response_seconds))
               /\ SameNumber(kpi.operators[op].avg_resolution_minutes,
                      ClaimedAverage(c_operator, op, c_resolution_minutes))
        /\ \A m \in DOMAIN kpi.managers :
               /\ SameNumber(kpi.managers[m].avg_response_seconds,
                      ClaimedAverage(c_manager, m, c_response_seconds))
               /\ SameNumber(kpi.managers[m].avg_resolution_minutes,
                      ClaimedAverage(c_manager, m, c_resolution_minutes))

----------------------------------------------------------------------------
(* C9 *)

\* C9: an empty or absent ticket table stays empty through every stage:
\* clean_tickets, enrich_tickets (whatever the reference tables: no join is
\* done) and compute_sla_metrics return an empty table, and
\* manager_operator_performance returns {"operators": {}, "managers": {}}.
C9_EmptyStaysEmpty ==
    /\ (raw # NotYet /\ pc # "raw" /\ NoneOrEmpty(raw))
           => cleaned = EmptyFrame
    /\ (cleaned # NotYet /\ pc \notin {"raw", "cleaned"} /\ NoneOrEmpty(cleaned))
           => enriched = EmptyFrame
    /\ (enriched # NotYet /\ pc \notin {"raw", "cleaned", "enriched"}
        /\ NoneOrEmpty(enriched))
           => sla = EmptyFrame
    /\ (sla # NotYet /\ pc \notin {"raw", "cleaned", "enriched", "sla"}
        /\ NoneOrEmpty(sla))
           => kpi = NoPerformance
    /\ (raw # NotYet /\ NoneOrEmpty(raw) /\ pc \in {"done", "raised"})
           => pc = "done" /\ kpi = NoPerformance

\* The four stages have run on a ticket table of all columns and no row,
\* with reference tables that lack their keys.
C9_Witness ==
    /\ pc = "done"
    /\ raw # NotYet
    /\ raw.cols # {}
    /\ raw.rows = <<>>
    /\ refs = KeylessTables
    /\ kpi = NoPerformance

====
